---- MODULE Spec2Model ----
(***************************************************************************)
(* jupyterhub_grouper_sync: a periodic job that reads the users of a       *)
(* JupyterHub (paginated GET /users, then GET /users/{name} for every      *)
(* non-admin user) and replaces the members of one Grouper group with      *)
(* their login ids (PUT /groups/{group}/members).                          *)
(*                                                                         *)
(* The model follows src/jupyterhub_grouper_sync/__init__.py.  Each call   *)
(* of the coroutine sync_users_to_groups is a "pass"; its local variables  *)
(* and closures are the fields of pass[p].  The hub and Grouper are the    *)
(* environment: the hub serves the pages of `chain`, every request may     *)
(* fail in the ways the source distinguishes.                              *)
(***************************************************************************)
EXTENDS Integers, Sequences, FiniteSets, TLC

\* ---------------------------------------------------------------- bounds
MaxPasses == 2      \* passes one behaviour may trigger
MaxUsers == 2       \* user records the hub holds, over all pages
MaxPages == 2       \* pages of the hub's user list
MaxMembers == 2     \* members handed to add_members in SpecPub
MaxKeyLen == 2      \* characters of a login id in SpecPub

Passes == 1..MaxPasses

\* GrouperSync.concurrency: its default, and the values tried: no limit (0),
\* the tightest limit, the default.
DefaultConcurrency == 10
Concurrencies == {0, 1, DefaultConcurrency}

\* ------------------------------------------------------------ environment
\* The user records GET /users returns: a name and the "admin" attribute.
UserRecords ==
    { [name |-> "alice", admin |-> FALSE],
      [name |-> "bob",   admin |-> FALSE],
      [name |-> "root",  admin |-> TRUE] }

\* A login id is a JSON value: a string (its characters) or a number.
\* Characters are kept by class: "a" a letter, "1" a digit, ":" anything else.
Chars == {"a", "1", ":"}
Str(s) == [isInt |-> FALSE, chars |-> s]
IntVal(s) == [isInt |-> TRUE, chars |-> s]

\* auth_state.oauth_user.login_id of GET /users/{name}, when the hub has it.
LoginIdOf(name) ==
    CASE name = "alice" -> Str(<<"a", "a">>)
      [] name = "bob"   -> Str(<<"1", "1">>)
      [] OTHER          -> Str(<<"a", ":", "a">>)

SeqsUpTo(S, n) == UNION { [1..k -> S] : k \in 0..n }

RECURSIVE Flatten(_)
Flatten(pages) ==
    IF pages = <<>> THEN <<>> ELSE Head(pages) \o Flatten(Tail(pages))

\* The chains of k pages holding at most n user records; pages may be empty.
RECURSIVE ChainsOf(_, _)
ChainsOf(k, n) ==
    IF k = 0 THEN { <<>> }
    ELSE UNION { { <<pg>> \o c : c \in ChainsOf(k - 1, n - Len(pg)) } :
                   pg \in SeqsUpTo(UserRecords, n) }

\* The page chains a hub may hold: at least one page.
Chains == UNION { ChainsOf(k, MaxUsers) : k \in 1..MaxPages }

\* What a request can come back with.  "transport": client.fetch raised
\* (connection error, timeout, HTTP error status).  The others are bodies.
PageResults == {"ok", "transport", "malformed", "nokeys"}
LookupResults == {"ok", "transport", "malformed", "nofield"}
PutResults == {"ok", "problem", "transport", "notjson"}

GroupId == "group"

\* ------------------------------------------------------------------ state
VARIABLES
    concurrency,   \* GrouperSync.concurrency
    chain,         \* the hub: the pages of GET /users
    legacy,        \* the hub is pre-2.0: GET /users answers its one page as a bare list
    awaits,        \* the installed PeriodicCallback awaits its callback
    loop,          \* "new" before start(), "running", "stopped" once loop.start() returned
    timer,         \* PeriodicCallback: [running, awaiting (the pass _run awaits, or 0)]
    started,       \* passes triggered so far
    ticks,         \* times the PeriodicCallback fired
    elapsed,       \* sync_every intervals gone by since pc.start()
    pass           \* pass[p]: the frame of the p-th sync_users_to_groups call

vars == <<concurrency, chain, legacy, awaits, loop, timer, started, ticks, elapsed, pass>>
env == <<concurrency, chain, legacy, awaits>>
sched == <<loop, timer, started, ticks, elapsed>>

NoRequest == [st |-> "none", url |-> 0, res |-> "none"]

\* The frame of a pass that has not been triggered.
IdlePass ==
    [ pc |-> "idle",
      semaphore |-> 0,
      resp_future |-> NoRequest,
      page_no |-> 0,
      item_count |-> 0,
      items |-> <<>>,
      pos |-> 0,
      users_to_process |-> <<>>,
      ui |-> 0,
      lookup |-> NoRequest,
      members |-> <<>>,
      puts |-> <<>>,
      errlog |-> <<>>,
      page |-> 0,
      answered |-> <<>> ]

Frame(p) == pass[p]
Set(p, f) == [pass EXCEPT ![p] = f]

InitEnv(chains, concs, hubs, libs) ==
    /\ concurrency \in concs
    /\ chain \in chains
    /\ legacy \in hubs
    /\ legacy => Len(chain) = 1
    /\ awaits \in libs

InitProcess ==
    /\ loop = "new"
    /\ timer = [running |-> FALSE, awaiting |-> 0]
    /\ started = 0
    /\ ticks = 0
    /\ elapsed = 0
    /\ pass = [p \in Passes |-> IdlePass]

\* ------------------------------------------------------- GrouperSync.start
\* start(): the first pass is queued with add_callback, the PeriodicCallback
\* is started, the loop runs.  (JUPYTERHUB_API_TOKEN is taken as set.)
start ==
    /\ loop = "new"
    /\ loop' = "running"
    /\ started' = 1
    /\ timer' = [running |-> TRUE, awaiting |-> 0]
    /\ pass' = Set(1, [Frame(1) EXCEPT !.pc = "scheduled"])
    /\ UNCHANGED <<env, ticks, elapsed>>

\* A PeriodicCallback that skips the tick while a pass is running.
PeriodicCallback_run_exclusive ==
    /\ loop = "running"
    /\ timer.running
    /\ timer.awaiting = 0
    /\ started < MaxPasses
    /\ \A p \in Passes : pass[p].pc \in {"idle", "done", "raised"}
    /\ ticks' = ticks + 1
    /\ elapsed' = elapsed + 1
    /\ started' = started + 1
    /\ pass' = Set(started + 1, [Frame(started + 1) EXCEPT !.pc = "scheduled"])
    /\ timer' = [timer EXCEPT !.awaiting = IF awaits THEN started + 1 ELSE 0]
    /\ UNCHANGED <<env, loop>>

\* PeriodicCallback._run: every sync_every seconds the callback is called;
\* nothing in it looks at the passes that are still running.  A
\* PeriodicCallback that awaits its callback (tornado >= 6.2) is not
\* scheduled again before that pass has ended.
PeriodicCallback_run ==
    /\ loop = "running"
    /\ timer.running
    /\ timer.awaiting = 0
    /\ started < MaxPasses
    /\ ticks' = ticks + 1
    /\ elapsed' = elapsed + 1
    /\ started' = started + 1
    /\ pass' = Set(started + 1, [Frame(started + 1) EXCEPT !.pc = "scheduled"])
    /\ timer' = [timer EXCEPT !.awaiting = IF awaits THEN started + 1 ELSE 0]
    /\ UNCHANGED <<env, loop>>

\* A PeriodicCallback._run without the finally: the next tick is scheduled
\* only when the awaited pass returns normally.
PeriodicCallback_schedule_next_on_success ==
    /\ timer.awaiting # 0
    /\ pass[timer.awaiting].pc = "done"
    /\ timer' = [timer EXCEPT !.awaiting = 0]
    /\ UNCHANGED <<env, loop, started, ticks, elapsed, pass>>

\* PeriodicCallback._run, finally: _schedule_next once the awaited pass has
\* ended, normally or with an exception (which _run logs).
PeriodicCallback_schedule_next ==
    /\ timer.awaiting # 0
    /\ pass[timer.awaiting].pc \in {"done", "raised"}
    /\ timer' = [timer EXCEPT !.awaiting = 0]
    /\ UNCHANGED <<env, loop, started, ticks, elapsed, pass>>

\* An interval skipped whether or not a pass is being awaited.
PeriodicCallback_update_next_any ==
    /\ loop = "running"
    /\ timer.running
    /\ elapsed < MaxPasses
    /\ elapsed' = elapsed + 1
    /\ UNCHANGED <<env, loop, timer, started, ticks, pass>>

\* PeriodicCallback._update_next, as reached from the finally of a _run that
\* awaited its callback: an interval that ends while the pass of the last
\* tick is still awaited is skipped, no pass is triggered for it.
PeriodicCallback_update_next ==
    /\ loop = "running"
    /\ timer.running
    /\ timer.awaiting # 0
    /\ elapsed < MaxPasses
    /\ elapsed' = elapsed + 1
    /\ UNCHANGED <<env, loop, timer, started, ticks, pass>>

\* Ctrl-C: loop.start() raises KeyboardInterrupt, start() swallows it and
\* returns, and the process ends with whatever the loop still held.
KeyboardInterrupt ==
    /\ loop = "running"
    /\ loop' = "stopped"
    /\ UNCHANGED <<env, timer, started, ticks, elapsed, pass>>

\* ------------------------------------------------- sync_users_to_groups
\* The coroutine up to its first suspension: the semaphore of this call,
\* the closures, the first page request handed to ensure_future, page_no = 1.
sync_users_to_groups(p) ==
    /\ Frame(p).pc = "scheduled"
    /\ pass' = Set(p, [Frame(p) EXCEPT
            !.pc = "await_page",
            !.semaphore = concurrency,
            !.resp_future = [st |-> "queued", url |-> 1, res |-> "none"],
            !.page_no = 1,
            !.item_count = 0,
            !.users_to_process = <<>>])
    /\ UNCHANGED <<env, sched>>

\* fetch that admits the request without taking a slot.
fetch_acquire_unlimited(p, f) ==
    /\ Frame(p)[f].st = "queued"
    /\ pass' = Set(p, [Frame(p) EXCEPT ![f].st = "inflight"])
    /\ UNCHANGED <<env, sched>>

\* fetch(req), first half: with concurrency > 0 the request waits for a slot
\* of the semaphore and takes it; with concurrency = 0 fetch is client.fetch.
\* f is the request: "resp_future" (a page) or "lookup" (one user).
fetch_acquire(p, f) ==
    /\ Frame(p)[f].st = "queued"
    /\ IF concurrency > 0
       THEN /\ Frame(p).semaphore > 0
            /\ pass' = Set(p, [Frame(p) EXCEPT
                    !.semaphore = @ - 1,
                    ![f].st = "inflight"])
       ELSE pass' = Set(p, [Frame(p) EXCEPT ![f].st = "inflight"])
    /\ UNCHANGED <<env, sched>>

\* fetch without the finally: the slot is given back only when client.fetch
\* returns, not when it raises.
fetch_release_leaky(p, f, res) ==
    /\ Frame(p)[f].st = "inflight"
    /\ pass' = Set(p, [Frame(p) EXCEPT
            !.semaphore = IF concurrency > 0 /\ res # "transport" THEN @ + 1 ELSE @,
            ![f].st = "done",
            ![f].res = res,
            !.answered = Append(@, [req |-> f, url |-> Frame(p)[f].url, res |-> res])])
    /\ UNCHANGED <<env, sched>>

\* fetch(req), second half: client.fetch returns or raises, and the finally
\* clause releases the slot either way.  answered keeps what the hub was
\* asked and what came back: it is read by the properties only.
fetch_release(p, f, res) ==
    /\ Frame(p)[f].st = "inflight"
    /\ pass' = Set(p, [Frame(p) EXCEPT
            !.semaphore = IF concurrency > 0 THEN @ + 1 ELSE @,
            ![f].st = "done",
            ![f].res = res,
            !.answered = Append(@, [req |-> f, url |-> Frame(p)[f].url, res |-> res])])
    /\ UNCHANGED <<env, sched>>

fetch(p) ==
    \/ fetch_acquire(p, "resp_future")
    \/ fetch_acquire(p, "lookup")
    \/ \E res \in PageResults : fetch_release(p, "resp_future", res)
    \/ \E res \in LookupResults : fetch_release(p, "lookup", res)

\* ------------------------------------------------------- fetch_paginated
\* The body of one answered page request.  A pre-2.0 hub answers the whole
\* user list, its only page, as a bare array; otherwise the body carries the
\* items of page `url` and the link to the next page, if there is one.
PageItems(url) == chain[url]
PageNext(url) == IF ~legacy /\ url < Len(chain) THEN url + 1 ELSE 0

\* fetch_paginated that does not request the next page when it parses a page.
fetch_paginated_page_nolookahead(p) ==
    LET f == Frame(p)
        url == f.resp_future.url
    IN
    /\ f.pc = "await_page"
    /\ f.resp_future.st = "done"
    /\ IF f.resp_future.res # "ok"
       THEN pass' = Set(p, [f EXCEPT !.pc = "raised", !.resp_future = NoRequest])
       ELSE pass' = Set(p, [f EXCEPT
                !.pc = "yield",
                !.items = PageItems(url),
                !.pos = 1,
                !.page = url,
                !.resp_future = NoRequest])
    /\ UNCHANGED <<env, sched>>

\* fetch_paginated that ends the sequence at a failed page request and lets
\* the pass go on with the users it has.
fetch_paginated_page_partial(p) ==
    LET f == Frame(p)
        url == f.resp_future.url
        nxt == PageNext(url)
    IN
    /\ f.pc = "await_page"
    /\ f.resp_future.st = "done"
    /\ IF f.resp_future.res # "ok"
       THEN pass' = Set(p, [f EXCEPT !.pc = "resolve", !.ui = 1, !.resp_future = NoRequest])
       ELSE pass' = Set(p, [f EXCEPT
                !.pc = "yield",
                !.items = PageItems(url),
                !.pos = 1,
                !.page = url,
                !.page_no = IF nxt # 0 THEN @ + 1 ELSE @,
                !.resp_future = IF nxt # 0
                                THEN [st |-> "queued", url |-> nxt, res |-> "none"]
                                ELSE NoRequest])
    /\ UNCHANGED <<env, sched>>

\* `response = await resp_future` and the parse of the page: a failed
\* request, a body that is no JSON and a body without "items" or
\* "_pagination" raise out of the generator, and so out of the pass.
\* Otherwise the next page, if any, is requested before the items are yielded.
\* fetch_paginated without the isinstance(resp_model, list) branch: a bare
\* array is indexed with "items" and the generator raises.
fetch_paginated_page_nolist(p) ==
    LET f == Frame(p)
        url == f.resp_future.url
        nxt == PageNext(url)
    IN
    /\ f.pc = "await_page"
    /\ f.resp_future.st = "done"
    /\ IF f.resp_future.res # "ok" \/ legacy
       THEN pass' = Set(p, [f EXCEPT !.pc = "raised", !.resp_future = NoRequest])
       ELSE pass' = Set(p, [f EXCEPT
                !.pc = "yield",
                !.items = PageItems(url),
                !.pos = 1,
                !.page = url,
                !.page_no = IF nxt # 0 THEN @ + 1 ELSE @,
                !.resp_future = IF nxt # 0
                                THEN [st |-> "queued", url |-> nxt, res |-> "none"]
                                ELSE NoRequest])
    /\ UNCHANGED <<env, sched>>

fetch_paginated_page(p) ==
    LET f == Frame(p)
        url == f.resp_future.url
        nxt == PageNext(url)
    IN
    /\ f.pc = "await_page"
    /\ f.resp_future.st = "done"
    /\ IF f.resp_future.res # "ok"
       THEN pass' = Set(p, [f EXCEPT !.pc = "raised", !.resp_future = NoRequest])
       ELSE pass' = Set(p, [f EXCEPT
                !.pc = "yield",
                !.items = PageItems(url),
                !.pos = 1,
                !.page = url,
                !.page_no = IF nxt # 0 THEN @ + 1 ELSE @,
                !.resp_future = IF nxt # 0
                                THEN [st |-> "queued", url |-> nxt, res |-> "none"]
                                ELSE NoRequest])
    /\ UNCHANGED <<env, sched>>

\* `yield item`, and the consumer's users_to_process.append(user).
fetch_paginated_yield(p) ==
    LET f == Frame(p) IN
    /\ f.pc = "yield"
    /\ f.pos <= Len(f.items)
    /\ pass' = Set(p, [f EXCEPT
            !.item_count = @ + 1,
            !.users_to_process = Append(@, f.items[f.pos]),
            !.pos = @ + 1])
    /\ UNCHANGED <<env, sched>>

\* fetch_paginated that ends after the items of the first page.
fetch_paginated_loop_stop(p) ==
    LET f == Frame(p) IN
    /\ f.pc = "yield"
    /\ f.pos > Len(f.items)
    /\ pass' = Set(p, [f EXCEPT !.pc = "resolve", !.ui = 1, !.members = <<>>,
                                !.resp_future = NoRequest])
    /\ UNCHANGED <<env, sched>>

\* The end of `for item in items`: back to `while resp_future is not None`.
\* With no request pending the generator ends and handle_user is called.
\* A consumer that stops iterating after the first page and starts the
\* lookups while the look-ahead request is still pending.
fetch_paginated_loop_early(p) ==
    LET f == Frame(p) IN
    /\ f.pc = "yield"
    /\ f.pos > Len(f.items)
    /\ pass' = Set(p, [f EXCEPT !.pc = "resolve", !.ui = 1, !.members = <<>>])
    /\ UNCHANGED <<env, sched>>

fetch_paginated_loop(p) ==
    LET f == Frame(p) IN
    /\ f.pc = "yield"
    /\ f.pos > Len(f.items)
    /\ IF f.resp_future.st = "none"
       THEN pass' = Set(p, [f EXCEPT !.pc = "resolve", !.ui = 1, !.members = <<>>])
       ELSE pass' = Set(p, [f EXCEPT !.pc = "await_page"])
    /\ UNCHANGED <<env, sched>>

fetch_paginated(p) ==
    \/ fetch_paginated_page(p)
    \/ fetch_paginated_yield(p)
    \/ fetch_paginated_loop(p)

\* ------------------------------------------------------------ handle_user
\* handle_user without the test of user["admin"].
handle_user_next_all(p) ==
    LET f == Frame(p) IN
    /\ f.pc = "resolve"
    /\ IF f.ui > Len(f.users_to_process)
       THEN pass' = Set(p, [f EXCEPT !.pc = "publish"])
       ELSE pass' = Set(p, [f EXCEPT
                !.pc = "await_lookup",
                !.lookup = [st |-> "queued", url |-> f.ui, res |-> "none"]])
    /\ UNCHANGED <<env, sched>>

\* `for user in users_to_process`: an admin is skipped, for any other user
\* get_user_info is awaited; after the last user the members are published.
handle_user_next(p) ==
    LET f == Frame(p) IN
    /\ f.pc = "resolve"
    /\ IF f.ui > Len(f.users_to_process)
       THEN pass' = Set(p, [f EXCEPT !.pc = "publish"])
       ELSE IF f.users_to_process[f.ui].admin
       THEN pass' = Set(p, [f EXCEPT !.ui = @ + 1])
       ELSE pass' = Set(p, [f EXCEPT
                !.pc = "await_lookup",
                !.lookup = [st |-> "queued", url |-> f.ui, res |-> "none"]])
    /\ UNCHANGED <<env, sched>>

\* get_user_info after its fetch, and the caller's use of the answer.  A
\* failed request and a body that is no JSON are caught and logged in
\* get_user_info, which answers without "user_data": the user is left out.
\* An answer without auth_state.oauth_user.login_id raises in handle_user,
\* where nothing catches it.
\* handle_user inserting each login id at the head of members instead of
\* appending it.
get_user_info_prepend(p) ==
    LET f == Frame(p)
        user == f.users_to_process[f.ui]
    IN
    /\ f.pc = "await_lookup"
    /\ f.lookup.st = "done"
    /\ CASE f.lookup.res = "ok" ->
              pass' = Set(p, [f EXCEPT
                  !.pc = "resolve",
                  !.lookup = NoRequest,
                  !.members = <<LoginIdOf(user.name)>> \o @,
                  !.ui = @ + 1])
         [] f.lookup.res \in {"transport", "malformed"} ->
              pass' = Set(p, [f EXCEPT
                  !.pc = "resolve",
                  !.lookup = NoRequest,
                  !.errlog = Append(@, [level |-> "error", about |-> user.name]),
                  !.ui = @ + 1])
         [] OTHER ->
              pass' = Set(p, [f EXCEPT !.pc = "raised", !.lookup = NoRequest])
    /\ UNCHANGED <<env, sched>>

\* handle_user calling get_user_info without await: the loop moves to the
\* next record while the lookup is still outstanding.
get_user_info_unawaited(p) ==
    LET f == Frame(p) IN
    /\ f.pc = "await_lookup"
    /\ f.lookup.st # "none"
    /\ pass' = Set(p, [f EXCEPT !.pc = "resolve", !.ui = @ + 1])
    /\ UNCHANGED <<env, sched>>

get_user_info(p) ==
    LET f == Frame(p)
        user == f.users_to_process[f.ui]
    IN
    /\ f.pc = "await_lookup"
    /\ f.lookup.st = "done"
    /\ CASE f.lookup.res = "ok" ->
              pass' = Set(p, [f EXCEPT
                  !.pc = "resolve",
                  !.lookup = NoRequest,
                  !.members = Append(@, LoginIdOf(user.name)),
                  !.ui = @ + 1])
         [] f.lookup.res \in {"transport", "malformed"} ->
              pass' = Set(p, [f EXCEPT
                  !.pc = "resolve",
                  !.lookup = NoRequest,
                  !.errlog = Append(@, [level |-> "error", about |-> user.name]),
                  !.ui = @ + 1])
         [] OTHER ->
              pass' = Set(p, [f EXCEPT !.pc = "raised", !.lookup = NoRequest])
    /\ UNCHANGED <<env, sched>>

handle_user(p) ==
    \/ handle_user_next(p)
    \/ get_user_info(p)

\* ------------------------------------------------------------ add_members
boolean_string(b) == IF b THEN "T" ELSE "F"

\* str.isalpha: at least one character, and every character a letter.
isalpha(chars) == Len(chars) > 0 /\ \A i \in 1..Len(chars) : chars[i] = "a"

\* member_key that also takes a string of digits for an opaque identifier.
member_key_digits(member) ==
    IF \/ member.isInt
       \/ isalpha(member.chars)
       \/ (Len(member.chars) > 0 /\ \A i \in 1..Len(member.chars) : member.chars[i] = "1")
    THEN "subjectId" ELSE "subjectIdentifier"

\* The field of one subject lookup: type(member) == int or member.isalpha().
member_key(member) ==
    IF member.isInt \/ isalpha(member.chars) THEN "subjectId" ELSE "subjectIdentifier"

\* One entry of subjectLookups: the dict {member_key: member}.
subject_lookup(member) == member_key(member) :> member

\* The body of the PUT.
request_data(replace_existing, members) ==
    [ replaceAllExisting |-> boolean_string(replace_existing),
      subjectLookups |-> [i \in 1..Len(members) |-> subject_lookup(members[i])] ]

\* add_members that sends nothing when there is no member.
add_members_skip_empty(p, res) ==
    LET f == Frame(p)
        put == [group |-> GroupId, data |-> request_data(TRUE, f.members), res |-> res]
    IN
    /\ f.pc = "publish"
    /\ IF f.members = <<>>
       THEN pass' = Set(p, [f EXCEPT !.pc = "done"])
       ELSE pass' = Set(p, [f EXCEPT
                !.pc = IF res \in {"ok", "problem"} THEN "done" ELSE "raised",
                !.puts = Append(@, put)])
    /\ UNCHANGED <<env, sched>>

\* add_members as handle_user calls it.  requests.put blocks the loop until
\* Grouper has answered.  A failed PUT and an answer that is no JSON raise
\* before the try; the except of handle_user names CalledProcessError only,
\* so both leave the pass as an exception.  A WsRestResultProblem in the
\* answer is logged (a warning, then the error) and the call returns.
\* add_members with the raise Exception(meta) outside the try block: the
\* problem marker is logged and then raised to the caller.
add_members_problem_raises(p, res) ==
    LET f == Frame(p)
        put == [group |-> GroupId, data |-> request_data(TRUE, f.members), res |-> res]
    IN
    /\ f.pc = "publish"
    /\ CASE res = "ok" ->
              pass' = Set(p, [f EXCEPT !.pc = "done", !.puts = Append(@, put)])
         [] res = "problem" ->
              pass' = Set(p, [f EXCEPT
                  !.pc = "raised",
                  !.puts = Append(@, put),
                  !.errlog = Append(@, [level |-> "warning", about |-> "WsRestResultProblem"])])
         [] OTHER ->
              pass' = Set(p, [f EXCEPT !.pc = "raised", !.puts = Append(@, put)])
    /\ UNCHANGED <<env, sched>>

add_members(p, res) ==
    LET f == Frame(p)
        put == [group |-> GroupId, data |-> request_data(TRUE, f.members), res |-> res]
    IN
    /\ f.pc = "publish"
    /\ CASE res = "ok" ->
              pass' = Set(p, [f EXCEPT !.pc = "done", !.puts = Append(@, put)])
         [] res = "problem" ->
              pass' = Set(p, [f EXCEPT
                  !.pc = "done",
                  !.puts = Append(@, put),
                  !.errlog = @ \o << [level |-> "warning", about |-> "WsRestResultProblem"],
                                     [level |-> "error", about |-> "resultMetadata"] >>])
         [] OTHER ->
              pass' = Set(p, [f EXCEPT !.pc = "raised", !.puts = Append(@, put)])
    /\ UNCHANGED <<env, sched>>

\* ------------------------------------------------------------------ specs
PassStep(p) ==
    \/ sync_users_to_groups(p)
    \/ fetch(p)
    \/ fetch_paginated(p)
    \/ handle_user(p)
    \/ \E res \in PutResults : add_members(p, res)

\* One pass: the pass queued at startup, watched until the timer first fires.
Init ==
    /\ InitEnv(Chains, Concurrencies, BOOLEAN, {FALSE})
    /\ InitProcess

Next ==
    \/ start
    \/ PassStep(1)

Spec == Init /\ [][Next]_vars

\* The scheduler with overlapping passes, over the hubs of at most one user
\* on one page; the PeriodicCallback of either tornado generation.
SchedChains == { c \in Chains : Len(c) = 1 /\ Len(c[1]) <= 1 }

InitSched ==
    /\ InitEnv(SchedChains, Concurrencies, {FALSE}, BOOLEAN)
    /\ InitProcess

NextSched ==
    \/ start
    \/ PeriodicCallback_run
    \/ PeriodicCallback_schedule_next
    \/ \E p \in Passes : PassStep(p)

SpecSched == InitSched /\ [][NextSched]_vars

\* A loop that goes on running the callbacks of its passes after start()
\* has returned.
IOLoop_callback_drain(p) == PassStep(p)

\* A step of a pass is a callback of the loop: it runs inside loop.start().
IOLoop_callback(p) ==
    /\ loop = "running"
    /\ PassStep(p)

\* The whole life of the process: start, ticks and skipped intervals, the
\* passes, and the interrupt that ends it.  The loop runs every callback
\* that is ready, and every request is answered or times out.  The hubs are
\* those of SpecSched, the concurrency is the default.
InitLoop ==
    /\ InitEnv(SchedChains, {DefaultConcurrency}, {FALSE}, BOOLEAN)
    /\ InitProcess

NextLoop ==
    \/ start
    \/ PeriodicCallback_run
    \/ PeriodicCallback_update_next
    \/ loop = "running" /\ PeriodicCallback_schedule_next
    \/ \E p \in Passes : IOLoop_callback(p)
    \/ KeyboardInterrupt

SpecLoop ==
    /\ InitLoop
    /\ [][NextLoop]_vars
    /\ \A p \in Passes : WF_vars(IOLoop_callback(p))

\* add_members on its own: a pass that has reached the publish step with any
\* list of login ids, strings of up to MaxKeyLen characters and numbers.
MemberKeys ==
    { Str(s) : s \in SeqsUpTo(Chars, MaxKeyLen) }
        \cup { IntVal(s) : s \in SeqsUpTo({"1"}, MaxKeyLen) \ {<<>>} }

InitPub ==
    /\ InitEnv({<< <<>> >>}, {0}, {FALSE}, {FALSE})
    /\ loop = "running"
    /\ timer = [running |-> TRUE, awaiting |-> 0]
    /\ started = 1
    /\ ticks = 0
    /\ elapsed = 0
    /\ \E ms \in SeqsUpTo(MemberKeys, MaxMembers) :
         pass = [p \in Passes |->
                   IF p = 1
                   THEN [IdlePass EXCEPT !.pc = "publish", !.page_no = 1, !.ui = 1,
                                         !.members = ms]
                   ELSE IdlePass]

NextPub == \E res \in PutResults : add_members(1, res)

SpecPub == InitPub /\ [][NextPub]_vars

\* ------------------------------------------------------------- properties
Range(s) == { s[i] : i \in DOMAIN s }

PageAnswers(p) == SelectSeq(Frame(p).answered, LAMBDA a : a.req = "resp_future")
LookupAnswers(p) == SelectSeq(Frame(p).answered, LAMBDA a : a.req = "lookup")

\* Some page request of the pass failed: in transport, or by its body.
PageFailed(p) == \E a \in Range(PageAnswers(p)) : a.res # "ok"

\* The records of the pages the hub has served to the pass, in page order.
Fetched(p) ==
    LET ok == SelectSeq(PageAnswers(p), LAMBDA a : a.res = "ok")
    IN  Flatten([k \in 1..Len(ok) |-> chain[ok[k].url]])

\* The positions in Fetched(p) of the records whose detail lookup the hub
\* answered with a login id.
LookupOk(p) ==
    { i \in 1..Len(Fetched(p)) :
        \E a \in Range(LookupAnswers(p)) : a.url = i /\ a.res = "ok" }

\* The member values of a PUT body, as a set.
Subjects(data) ==
    UNION { Range(data.subjectLookups[i]) : i \in 1..Len(data.subjectLookups) }

\* Source requests of the pass that are in flight: between the acquire and
\* the release of fetch.
InFlight(p) ==
    Cardinality({ f \in {"resp_future", "lookup"} : Frame(p)[f].st = "inflight" })

\* C1: the subject list of every PUT is, as a set, the login ids of the
\* fetched records that are not admins and whose detail lookup succeeded:
\* no admin, no failed lookup and nothing else contributes an entry.
C1_PublishedSet ==
    \A p \in Passes : \A k \in 1..Len(Frame(p).puts) :
        Subjects(Frame(p).puts[k].data) =
            { LoginIdOf(Fetched(p)[i].name) :
                i \in { j \in LookupOk(p) : ~Fetched(p)[j].admin } }

\* Two pages of one user each, both resolved: a PUT of the two identities.
C1_Witness ==
    /\ Frame(1).pc = "done"
    /\ Len(chain) = 2 /\ Len(chain[1]) = 1 /\ Len(chain[2]) = 1
    /\ LookupOk(1) = {1, 2}
    /\ Subjects(Frame(1).puts[1].data) = {LoginIdOf("alice"), LoginIdOf("bob")}

\* C2: a detail lookup that fails (request failed, body no JSON, or no
\* login id in the body) is logged for that user, and the pass does not
\* raise in the resolver.
C2_LookupFailureIsSoft ==
    \A p \in Passes :
        Frame(p).lookup.st = "none" =>
            \A a \in Range(LookupAnswers(p)) :
                a.res # "ok" =>
                    /\ \E e \in Range(Frame(p).errlog) :
                          /\ e.level = "error"
                          /\ e.about = Frame(p).users_to_process[a.url].name
                    /\ ~(Frame(p).pc = "raised" /\ Frame(p).puts = <<>>)

\* C3: a pass with a failed page request writes no membership, resolves no
\* user, and ends as an exception; the users of earlier pages are dropped.
C3_PageFailureAborts ==
    \A p \in Passes :
        PageFailed(p) =>
            /\ Frame(p).puts = <<>>
            /\ LookupAnswers(p) = <<>>
            /\ Frame(p).pc \in {"await_page", "yield", "raised"}

\* The second page failed after the users of the first were collected.
C3_Witness ==
    /\ PageFailed(1)
    /\ Frame(1).pc = "raised"
    /\ Frame(1).users_to_process # <<>>
    /\ Len(PageAnswers(1)) = 2

\* C4: a PUT that fails in transport is logged as an error and the pass
\* ends without raising.
C4_PutFailureIsSoft ==
    \A p \in Passes : \A k \in 1..Len(Frame(p).puts) :
        Frame(p).puts[k].res = "transport" =>
            /\ Frame(p).pc = "done"
            /\ \E e \in Range(Frame(p).errlog) : e.level = "error" /\ e.about = GroupId

\* C5: with concurrency N > 0 a pass has at most N source requests in
\* flight, and each of them holds a slot of the pass's semaphore.
C5_ConcurrencyBound ==
    \A p \in Passes :
        (concurrency > 0 /\ Frame(p).pc \notin {"idle", "scheduled"}) =>
            /\ InFlight(p) <= concurrency
            /\ Frame(p).semaphore = concurrency - InFlight(p)

\* A detail lookup in flight under the tightest limit: every slot is taken.
C5_Witness ==
    /\ concurrency = 1
    /\ Frame(1).lookup.st = "inflight"
    /\ InFlight(1) = 1
    /\ Frame(1).semaphore = 0

\* The pass is between its first statement and its end.
Running(p) == Frame(p).pc \notin {"idle", "scheduled", "done", "raised"}

\* C6: the timer does not look at the passes in flight: the first tick (and,
\* with a PeriodicCallback that does not await its callback, every tick) can
\* fire whatever the earlier passes are doing, so passes can overlap.
C6_TimerIndependent ==
    (timer.running /\ started < MaxPasses /\ (ticks = 0 \/ ~awaits)) =>
        ENABLED PeriodicCallback_run

\* The startup pass is resolving users while the pass of the first tick
\* fetches its first page: both have a request in flight.
C6_Witness ==
    /\ ticks = 1
    /\ Running(1) /\ Running(2)
    /\ Frame(1).lookup.st = "inflight"
    /\ Frame(2).resp_future.st = "inflight"

\* The generator of fetch_paginated has ended normally.
Drained(p) ==
    \/ Frame(p).pc \in {"resolve", "await_lookup", "publish", "done"}
    \/ Frame(p).pc = "raised" /\ ~PageFailed(p)

\* C7: from a paginated hub whose every page request succeeds the Fetcher
\* yields the items of all pages, in page order and in the order within each
\* page, each once; the pages are requested once each, first to last.
C7_YieldsConcatenation ==
    \A p \in Passes :
        (~legacy /\ Drained(p)) =>
            /\ Frame(p).users_to_process = Flatten(chain)
            /\ Frame(p).item_count = Len(Flatten(chain))
            /\ Frame(p).page_no = Len(chain)
            /\ Len(PageAnswers(p)) = Len(chain)
            /\ \A k \in 1..Len(chain) : PageAnswers(p)[k].url = k

\* Two non-empty pages have been drained.
C7_Witness ==
    /\ ~legacy
    /\ Drained(1)
    /\ Len(chain) = 2 /\ chain[1] # <<>> /\ chain[2] # <<>>
    /\ Frame(1).users_to_process = chain[1] \o chain[2]

\* C8: while the items of a page that has a next link are yielded, from
\* before the first of them, the request for the next page is submitted.
C8_LookAhead ==
    \A p \in Passes :
        (Frame(p).pc = "yield" /\ PageNext(Frame(p).page) # 0) =>
            /\ Frame(p).resp_future.st # "none"
            /\ Frame(p).resp_future.url = PageNext(Frame(p).page)

\* No item of page 1 is yielded yet and the request for page 2 is in flight.
C8_Witness ==
    /\ Frame(1).pc = "yield"
    /\ Frame(1).page = 1
    /\ Frame(1).pos = 1 /\ Len(Frame(1).items) >= 1
    /\ Frame(1).users_to_process = <<>>
    /\ Frame(1).resp_future.st = "inflight"
    /\ Frame(1).resp_future.url = 2

\* C9: a pass sends at most one PUT, none before the publish step and one
\* once that step is done; every PUT is for the configured group and
\* carries replaceAllExisting "T", whatever the members.
C9_OneReplaceAllWrite ==
    \A p \in Passes :
        /\ Len(Frame(p).puts) <= 1
        /\ Frame(p).pc = "done" => Len(Frame(p).puts) = 1
        /\ Frame(p).pc \notin {"done", "raised"} => Frame(p).puts = <<>>
        /\ \A k \in 1..Len(Frame(p).puts) :
              /\ Frame(p).puts[k].group = GroupId
              /\ Frame(p).puts[k].data.replaceAllExisting = "T"

\* The only user is an admin: one PUT with no subject and the flag "T".
C9_Witness ==
    /\ Frame(1).pc = "done"
    /\ Frame(1).users_to_process = << [name |-> "root", admin |-> TRUE] >>
    /\ Len(Frame(1).puts) = 1
    /\ Frame(1).puts[1].data = [replaceAllExisting |-> "T", subjectLookups |-> <<>>]

\* A string of letters only, and a string of digits only (not empty).
PurelyAlphabetic(m) ==
    ~m.isInt /\ Len(m.chars) > 0 /\ \A i \in 1..Len(m.chars) : m.chars[i] = "a"
PurelyNumeric(m) ==
    ~m.isInt /\ Len(m.chars) > 0 /\ \A i \in 1..Len(m.chars) : m.chars[i] = "1"

\* C10 as claimed: a string member that is purely alphabetic or purely
\* numeric is sent as subjectId alone, every other string as
\* subjectIdentifier alone.
C10_ClassificationAsClaimed ==
    \A p \in Passes : \A k \in 1..Len(Frame(p).puts) :
        \A i \in 1..Len(Frame(p).members) :
            LET m == Frame(p).members[i]
                e == Frame(p).puts[k].data.subjectLookups[i]
            IN  ~m.isInt =>
                    DOMAIN e = IF PurelyAlphabetic(m) \/ PurelyNumeric(m)
                               THEN {"subjectId"} ELSE {"subjectIdentifier"}

\* C10, amended: a member that is a non-empty purely alphabetic string or a
\* number is sent as subjectId alone; every other string, a string of digits
\* and the empty string among them, as subjectIdentifier alone; the one field
\* of the entry holds the member.
C10_Classification ==
    \A p \in Passes : \A k \in 1..Len(Frame(p).puts) :
        /\ Len(Frame(p).puts[k].data.subjectLookups) = Len(Frame(p).members)
        /\ \A i \in 1..Len(Frame(p).members) :
            LET m == Frame(p).members[i]
                e == Frame(p).puts[k].data.subjectLookups[i]
                key == IF m.isInt \/ PurelyAlphabetic(m)
                       THEN "subjectId" ELSE "subjectIdentifier"
            IN  DOMAIN e = {key} /\ e[key] = m

\* A PUT of a string of digits, sent as subjectIdentifier, and of a number,
\* sent as subjectId.
C10_Witness ==
    /\ Len(Frame(1).puts) = 1
    /\ \E i, j \in 1..Len(Frame(1).members) :
        /\ PurelyNumeric(Frame(1).members[i])
        /\ DOMAIN Frame(1).puts[1].data.subjectLookups[i] = {"subjectIdentifier"}
        /\ Frame(1).members[j].isInt
        /\ DOMAIN Frame(1).puts[1].data.subjectLookups[j] = {"subjectId"}

\* C13: the semaphore of a pass never leaves 0..N, and with no request of
\* the pass in flight every slot is free, whatever requests succeeded or
\* failed before.
C13_SlotsReleased ==
    \A p \in Passes :
        (concurrency > 0 /\ Frame(p).pc \notin {"idle", "scheduled"}) =>
            /\ Frame(p).semaphore \in 0..concurrency
            /\ InFlight(p) = 0 => Frame(p).semaphore = concurrency

\* A request that raised and one that returned are behind the pass, none is
\* in flight and the slot is free again.
C13_Witness ==
    /\ concurrency = 1
    /\ Frame(1).pc = "resolve"
    /\ InFlight(1) = 0
    /\ \E a \in Range(Frame(1).answered) : a.res = "transport"
    /\ \E a \in Range(Frame(1).answered) : a.res = "ok"
    /\ Frame(1).semaphore = 1

\* C14: when the hub answers with a bare array, that answer is the only
\* page: its items are yielded in order, no second page is requested, and
\* the generator ends, so the pass goes on to the lookups with exactly
\* those records.
C14_BareArrayIsTerminal ==
    \A p \in Passes :
        LET f == Frame(p) IN
        (legacy /\ PageAnswers(p) # <<>> /\ ~PageFailed(p)) =>
            /\ Len(PageAnswers(p)) = 1
            /\ f.page_no = 1
            /\ f.pc = "await_page" => f.resp_future.st = "done"
            /\ f.pc = "yield" =>
                  /\ f.resp_future.st = "none"
                  /\ f.items = chain[1]
                  /\ f.users_to_process = SubSeq(chain[1], 1, f.pos - 1)
            /\ f.pc \notin {"await_page", "yield"} =>
                  /\ f.resp_future.st = "none"
                  /\ f.users_to_process = chain[1]

\* A bare array of two records has been yielded whole and the pass has
\* moved on to the lookups.
C14_Witness ==
    /\ legacy
    /\ Len(chain[1]) = 2
    /\ Frame(1).pc = "await_lookup"
    /\ Frame(1).users_to_process = chain[1]
    /\ Len(PageAnswers(1)) = 1

\* C15: a membership write answered with the problem marker logs a warning
\* and then the result metadata, raises nothing to the pass, which ends
\* normally, and the write is not issued a second time by that pass.
C15_ProblemIsLogged ==
    \A p \in Passes :
        LET f == Frame(p) IN
        (\E i \in 1..Len(f.puts) : f.puts[i].res = "problem") =>
            /\ f.pc = "done"
            /\ Len(f.puts) = 1
            /\ Len(f.errlog) >= 2
            /\ f.errlog[Len(f.errlog) - 1] =
                   [level |-> "warning", about |-> "WsRestResultProblem"]
            /\ f.errlog[Len(f.errlog)] =
                   [level |-> "error", about |-> "resultMetadata"]
            /\ ~ ENABLED PassStep(p)

\* A pass that resolved a member wrote it, got the problem marker back and
\* ended normally.
C15_Witness ==
    /\ Frame(1).pc = "done"
    /\ Len(Frame(1).members) >= 1
    /\ Len(Frame(1).puts) = 1
    /\ Frame(1).puts[1].res = "problem"

\* The number of page requests a complete walk of the hub's listing takes.
ListingPages == IF legacy THEN 1 ELSE Len(chain)

\* C18: the phases of a pass are strictly ordered.  A lookup is requested
\* only when every page of the listing has been answered and yielded; the
\* membership write is issued only when every non-admin record's lookup has
\* been answered; and no request to the hub is pending or in flight at the
\* write.
C18_PhasesOrdered ==
    \A p \in Passes :
        LET f == Frame(p) IN
        /\ (f.lookup.st # "none" \/ LookupAnswers(p) # <<>>) =>
              /\ f.resp_future.st = "none"
              /\ Len(PageAnswers(p)) = ListingPages
              /\ ~PageFailed(p)
              /\ f.users_to_process = Fetched(p)
        /\ (f.pc = "publish" \/ f.puts # <<>>) =>
              /\ f.resp_future.st = "none"
              /\ f.lookup.st = "none"
              /\ InFlight(p) = 0
              /\ Len(PageAnswers(p)) = ListingPages
              /\ \A i \in 1..Len(f.users_to_process) :
                    ~f.users_to_process[i].admin =>
                        \E a \in Range(LookupAnswers(p)) : a.url = i

\* A two-page listing with a record on each page, both looked up, and the
\* write issued.
C18_Witness ==
    /\ Len(chain) = 2
    /\ Len(chain[1]) = 1 /\ Len(chain[2]) = 1
    /\ Len(LookupAnswers(1)) = 2
    /\ Len(Frame(1).puts) = 1

\* Requests of the pass to the hub that have been created and not yet
\* answered, whether waiting for a slot or in flight.
Outstanding(p) ==
    { f \in {"resp_future", "lookup"} : Frame(p)[f].st \in {"queued", "inflight"} }

\* The non-admin records among the first n of the pass.
NonAdminBefore(p, n) ==
    { i \in 1..n : i <= Len(Frame(p).users_to_process)
                   /\ ~Frame(p).users_to_process[i].admin }

\* C19: whatever the concurrency setting, 0 included, a pass has at most one
\* request to the hub outstanding: the page request it has created is the
\* one right after the last answered page, and a lookup is created only when
\* the lookups of all earlier records have been answered.
C19_OneOutstanding ==
    \A p \in Passes :
        LET f == Frame(p) IN
        /\ Cardinality(Outstanding(p)) <= 1
        /\ InFlight(p) <= 1
        /\ concurrency > 0 /\ Running(p) => f.semaphore >= concurrency - 1
        /\ f.resp_future.st \in {"queued", "inflight"} =>
              f.resp_future.url = Len(PageAnswers(p)) + 1
        /\ f.pc # "await_lookup" => f.lookup.st = "none"
        /\ f.lookup.st # "none" =>
              /\ f.lookup.url = f.ui
              /\ \A i \in NonAdminBefore(p, f.ui - 1) :
                    \E a \in Range(LookupAnswers(p)) : a.url = i

\* With the limiter switched off, the look-ahead request for page 2 is in
\* flight while the records of page 1 are being yielded, and it is the only
\* outstanding request.
C19_Witness ==
    /\ concurrency = 0
    /\ Frame(1).pc = "yield"
    /\ Frame(1).pos <= Len(Frame(1).items)
    /\ Frame(1).resp_future.st = "inflight"
    /\ Frame(1).resp_future.url = 2
    /\ Outstanding(1) = {"resp_future"}

\* The login ids, in listing order, of the non-admin records the hub served
\* to the pass and answered the lookup of.
ResolvedInOrder(p) ==
    LET recs == Fetched(p)
        idx  == SelectSeq([i \in 1..Len(recs) |-> i],
                          LAMBDA i : ~recs[i].admin /\ i \in LookupOk(p))
    IN  [k \in 1..Len(idx) |-> LoginIdOf(recs[idx[k]].name)]

\* The member values of a PUT body, in the order of its subject list.
SubjectSeq(data) ==
    [k \in 1..Len(data.subjectLookups) |->
        data.subjectLookups[k][CHOOSE key \in DOMAIN data.subjectLookups[k] : TRUE]]

\* C20: the subject list of a PUT is, as a sequence, the login ids of the
\* resolved non-admin records in the order the listing yielded them; a
\* record listed twice is written twice.
C20_OrderPreserved ==
    \A p \in Passes :
        \A i \in 1..Len(Frame(p).puts) :
            SubjectSeq(Frame(p).puts[i].data) = ResolvedInOrder(p)

\* bob on page 1 and alice on page 2: the write carries bob's id, then
\* alice's.
C20_Witness ==
    /\ Len(Frame(1).puts) = 1
    /\ SubjectSeq(Frame(1).puts[1].data) = << LoginIdOf("bob"), LoginIdOf("alice") >>
    /\ Len(chain) = 2

\* alice listed twice on one page is written twice.
C20_Duplicates ==
    /\ Len(Frame(1).puts) = 1
    /\ Len(chain) = 1
    /\ Len(chain[1]) = 2
    /\ chain[1][1] = chain[1][2]
    /\ SubjectSeq(Frame(1).puts[1].data) = << LoginIdOf("alice"), LoginIdOf("alice") >>

\* The pass has ended with a failure: it raised (a page request, a record
\* without login_id, the PUT), or it returned after logging a failed lookup
\* or a problem marker.
FailedPass(p) ==
    /\ Frame(p).pc \in {"done", "raised"}
    /\ Frame(p).pc = "raised" \/ Frame(p).errlog # <<>>

\* C12: a failed pass leaves the loop running and the timer armed, takes no
\* further step of its own, and the timer goes on: a pass the timer awaits
\* is let go of when it fails, and an idle timer can fire its next tick.
\* Every pass but the startup one was triggered by a tick.
C12_FailureLeavesTimer ==
    /\ loop = "running" => started = ticks + 1
    /\ \A p \in Passes :
          FailedPass(p) =>
              /\ loop = "running"
              /\ timer.running
              /\ ~ ENABLED PassStep(p)
              /\ timer.awaiting = p => ENABLED PeriodicCallback_schedule_next
              /\ (timer.awaiting = 0 /\ started < MaxPasses) =>
                     ENABLED PeriodicCallback_run

\* The startup pass died on its page request; the first tick has triggered
\* a second pass, which is running.
C12_Witness ==
    /\ Frame(1).pc = "raised"
    /\ PageFailed(1)
    /\ ticks = 1
    /\ Running(2)

\* Requests to the hub in flight over the passes 1..n of the process.
RECURSIVE InFlightUpTo(_)
InFlightUpTo(n) == IF n = 0 THEN 0 ELSE InFlight(n) + InFlightUpTo(n - 1)

\* C16: with concurrency N > 0 the requests to the hub in flight over all
\* passes together never exceed N, as they would with one slot pool shared
\* by the passes.
C16_SharedSlotPool ==
    concurrency > 0 => InFlightUpTo(MaxPasses) <= concurrency

C17_InFlightPassCompletes ==
    \A p \in Passes :
        (loop = "stopped" /\ Running(p)) ~> (Frame(p).pc \in {"done", "raised"})

\* C17: the interrupt itself changes nothing in the passes, and once the
\* loop is stopped nothing moves any more: no pass is triggered, no tick
\* fires, and a pass that was in flight stays where the interrupt found it,
\* so it publishes only if it already had.
C17_InterruptFreezes ==
    [][ (loop = "stopped" \/ loop' = "stopped") =>
            UNCHANGED <<started, ticks, pass>> ]_vars

\* The loop was stopped while the startup pass had a lookup in flight and
\* had published nothing.
C17_Witness ==
    /\ loop = "stopped"
    /\ Frame(1).pc = "await_lookup"
    /\ Frame(1).lookup.st = "inflight"
    /\ Frame(1).puts = <<>>

====
